---- MODULE Spec2Model ----
(***************************************************************************)
(* Model of src/agents/deals.py: the text cleaner extract, the constructor *)
(* ScrapedDeal.__init__ and the collection loop ScrapedDeal.fetch.         *)
(*                                                                         *)
(* A Python str is a sequence of one-character strings.  An HTML document  *)
(* is the sequence of tokens html.parser hands to BeautifulSoup: a tag is  *)
(* one token (a multi-character string), a character of text is one token, *)
(* and a character reference (&lt;, &gt;) is one token.                    *)
(***************************************************************************)
EXTENDS Integers, Sequences, FiniteSets, TLC

VARIABLES
    rss,            \* the feeds as the network serves them: feed url ->
                    \* whether it can be fetched and how many entries it has
    net,            \* the pages as the network serves them: the one href
                    \* whose reply is chosen freely, and that reply
    pc,             \* position of the running call
    show_progress,  \* argument of fetch
    feed_iter,      \* fetch: the iterable of the outer loop
    feed_idx,       \* fetch: number of items the outer loop has taken
    entries,        \* fetch: feed.entries[:10] of the feed being processed
    entry_idx,      \* fetch: number of items the inner loop has taken
    deals,          \* fetch: the list being built
    clock,          \* time slept so far, in tenths of a time unit
    requested,      \* every url requested so far, in order
    progress,       \* the count the progress bar shows
    error,          \* the exception that left the call, or "none"
    returned,       \* results of the finished calls of fetch, by show_progress
    arg,            \* argument of a single call of extract or __init__
    ret             \* its result

vars == <<rss, net, pc, show_progress, feed_iter, feed_idx, entries, entry_idx,
          deals, clock, requested, progress, error, returned, arg, ret>>

-----------------------------------------------------------------------------
(* Bounds of the model *)

MaxEntries == 11      \* longest feed served
MaxSnippetLen == 3    \* longest html snippet given to extract, in tokens
MaxPieces == 3        \* longest page text given to __init__, in pieces

-----------------------------------------------------------------------------
(* Python str operations *)

Whitespace == {" ", "\n"}

\* s[i:i+len(sub)] == sub  (i is 1-based)
StartsWithAt(s, sub, i) ==
    /\ i + Len(sub) - 1 <= Len(s)
    /\ \A k \in 1..Len(sub) : s[i + k - 1] = sub[k]

\* s.find(sub, i), 1-based, 0 when absent
RECURSIVE StrFind(_, _, _)
StrFind(s, sub, i) ==
    IF i + Len(sub) - 1 > Len(s) THEN 0
    ELSE IF StartsWithAt(s, sub, i) THEN i
    ELSE StrFind(s, sub, i + 1)

\* sub in s
Contains(s, sub) == StrFind(s, sub, 1) # 0

\* s.replace(old, new): every non-overlapping occurrence, left to right
RECURSIVE StrReplace(_, _, _)
StrReplace(s, old, new) ==
    LET i == StrFind(s, old, 1) IN
    IF i = 0 THEN s
    ELSE SubSeq(s, 1, i - 1) \o new
            \o StrReplace(SubSeq(s, i + Len(old), Len(s)), old, new)

\* s.split(sep): cut at every non-overlapping occurrence, left to right
RECURSIVE StrSplit(_, _)
StrSplit(s, sep) ==
    LET i == StrFind(s, sep, 1) IN
    IF i = 0 THEN <<s>>
    ELSE <<SubSeq(s, 1, i - 1)>>
            \o StrSplit(SubSeq(s, i + Len(sep), Len(s)), sep)

RECURSIVE LStrip(_)
LStrip(s) ==
    IF s # <<>> /\ Head(s) \in Whitespace THEN LStrip(Tail(s)) ELSE s

RECURSIVE RStrip(_)
RStrip(s) ==
    IF s # <<>> /\ s[Len(s)] \in Whitespace
    THEN RStrip(SubSeq(s, 1, Len(s) - 1)) ELSE s

\* s.strip()
Strip(s) == RStrip(LStrip(s))

-----------------------------------------------------------------------------
(* BeautifulSoup over a token sequence *)

DivSnippet == "<div class=\"snippet summary\">"
DivContent == "<div class=\"content-section\">"
DivPlain == "<div>"
DivEnd == "</div>"
Bold == "<b>"
EntLt == "&lt;"
EntGt == "&gt;"

DivOpen == {DivSnippet, DivContent, DivPlain}
Tags == DivOpen \cup {DivEnd, Bold}
Letters == {"a", "b", "d", "e", "i", "m", "o", "r", "s", "t", "u", "v", "F"}

\* soup.find('div', class_=...): position of the first such start tag, 0 for None
RECURSIVE SoupFind(_, _, _)
SoupFind(soup, tag, i) ==
    IF i > Len(soup) THEN 0
    ELSE IF soup[i] = tag THEN i
    ELSE SoupFind(soup, tag, i + 1)

\* position of the end tag of the div whose contents start at i (Len + 1 when
\* the div is never closed: the parser closes it at the end of the document)
RECURSIVE CloseOf(_, _, _)
CloseOf(soup, i, depth) ==
    IF i > Len(soup) THEN i
    ELSE IF soup[i] \in DivOpen THEN CloseOf(soup, i + 1, depth + 1)
    ELSE IF soup[i] = DivEnd
         THEN IF depth = 0 THEN i ELSE CloseOf(soup, i + 1, depth - 1)
    ELSE CloseOf(soup, i + 1, depth)

\* the contents of the element whose start tag is at position i
Contents(soup, i) == SubSeq(soup, i + 1, CloseOf(soup, i + 1, 0) - 1)

\* the text a token stands for: a character reference is decoded
Decode(tok) ==
    IF tok = EntLt THEN "<" ELSE IF tok = EntGt THEN ">" ELSE tok

\* element.get_text(): the text nodes below it, concatenated
RECURSIVE GetText(_)
GetText(toks) ==
    IF toks = <<>> THEN <<>>
    ELSE IF Head(toks) \in Tags THEN GetText(Tail(toks))
    ELSE <<Decode(Head(toks))>> \o GetText(Tail(toks))

\* the first text node of toks (the tokens up to the first tag), decoded
RECURSIVE FirstNode(_)
FirstNode(toks) ==
    IF toks = <<>> \/ Head(toks) \in Tags THEN <<>>
    ELSE <<Decode(Head(toks))>> \o FirstNode(Tail(toks))

\* element.get_text(strip=True): each text node stripped, empty ones dropped
RECURSIVE GetTextStripped(_)
GetTextStripped(toks) ==
    IF toks = <<>> THEN <<>>
    ELSE IF Head(toks) \in Tags THEN GetTextStripped(Tail(toks))
    ELSE LET node == FirstNode(toks) IN
         Strip(node) \o GetTextStripped(SubSeq(toks, Len(node) + 1, Len(toks)))

\* does a tag start at the head of the str s: "<" letter ... ">" or "</" letter ... ">"
TagAhead(s) ==
    /\ Len(s) >= 2 /\ s[1] = "<"
    /\ \/ s[2] \in Letters
       \/ s[2] = "/" /\ Len(s) >= 3 /\ s[3] \in Letters
    /\ StrFind(s, <<">">>, 2) # 0

\* BeautifulSoup(s, 'html.parser').get_text() of a str: its tags are dropped
RECURSIVE ParsedText(_)
ParsedText(s) ==
    IF s = <<>> THEN <<>>
    ELSE IF TagAhead(s)
         THEN ParsedText(SubSeq(s, StrFind(s, <<">">>, 2) + 1, Len(s)))
    ELSE <<Head(s)>> \o ParsedText(Tail(s))

\* end of the match of the pattern <[^<]+?> at the head of s, 0 when none:
\* "<", then the fewest (at least one) characters other than "<", then ">"
RECURSIVE TagMatchEnd(_, _)
TagMatchEnd(s, j) ==
    IF j > Len(s) THEN 0
    ELSE IF s[j] = ">" THEN j
    ELSE IF s[j] = "<" THEN 0
    ELSE TagMatchEnd(s, j + 1)

\* re.sub('<[^<]+?>', '', s)
RECURSIVE ReSubTags(_)
ReSubTags(s) ==
    IF s = <<>> THEN <<>>
    ELSE LET e == IF s[1] = "<" /\ Len(s) >= 3 /\ s[2] # "<"
                  THEN TagMatchEnd(s, 3) ELSE 0
         IN IF e # 0 THEN ReSubTags(SubSeq(s, e + 1, Len(s)))
            ELSE <<Head(s)>> \o ReSubTags(Tail(s))

-----------------------------------------------------------------------------
(* extract, src/agents/deals.py lines 18-32 *)

Newline == <<"\n">>
Space == <<" ">>

\* extract as it would be with the strip of line 29 applied to both branches
extractStripBoth(html_snippet) ==
    LET snippet_div == SoupFind(html_snippet, DivSnippet, 1)
        result ==
            IF snippet_div # 0
            THEN Strip(ReSubTags(ParsedText(
                    GetTextStripped(Contents(html_snippet, snippet_div)))))
            ELSE Strip(html_snippet)
    IN  StrReplace(result, Newline, Space)

extract(html_snippet) ==
    LET snippet_div == SoupFind(html_snippet, DivSnippet, 1)
        result ==
            IF snippet_div # 0
            THEN Strip(ReSubTags(ParsedText(
                    GetTextStripped(Contents(html_snippet, snippet_div)))))
            ELSE html_snippet
    IN  StrReplace(result, Newline, Space)

-----------------------------------------------------------------------------
(* ScrapedDeal.__init__, src/agents/deals.py lines 45-60 *)

Features == <<"F", "e", "a", "t", "u", "r", "e", "s">>
NewlineMore == <<"\n", "m", "o", "r", "e">>

\* requests.get(url): the reply the network gives; it raises only when no
\* reply arrives, whatever the status code of a reply that does arrive
RequestsGet(url, web) == web[url]

\* lines 54-55 on a parsed page that has the content section at position div
CleanContent(soup, div) ==
    StrReplace(StrReplace(GetText(Contents(soup, div)), NewlineMore, <<>>),
               Newline, Space)

\* lines 56-60 with the else branch keeping the text in both fields
SplitContentKeepBoth(content) ==
    IF Contains(content, Features)
    THEN LET parts == StrSplit(content, Features) IN
         IF Len(parts) = 2
         THEN [error |-> "none", details |-> parts[1], features |-> parts[2]]
         ELSE [error |-> "ValueError", details |-> <<>>, features |-> <<>>]
    ELSE [error |-> "none", details |-> content, features |-> content]

\* lines 56-60: the two-name unpacking of split raises ValueError unless the
\* split has exactly two parts, and then neither attribute is assigned
SplitContent(content) ==
    IF Contains(content, Features)
    THEN LET parts == StrSplit(content, Features) IN
         IF Len(parts) = 2
         THEN [error |-> "none", details |-> parts[1], features |-> parts[2]]
         ELSE [error |-> "ValueError", details |-> <<>>, features |-> <<>>]
    ELSE [error |-> "none", details |-> content, features |-> <<>>]

\* The constructor: self holds the attributes assigned before it returned or
\* raised; error names the exception ("none" when it returned).
ScrapedDeal(entry, web) ==
    LET early == [title |-> entry.title,
                  summary |-> extract(entry.summary),
                  url |-> entry.links[1].href]
        reply == RequestsGet(early.url, web)
    IN  IF reply.raises
        THEN [error |-> "ConnectionError", self |-> early]
        ELSE LET soup == reply.content
                 div == SoupFind(soup, DivContent, 1)
             IN  IF div = 0
                 THEN [error |-> "AttributeError", self |-> early]
                 ELSE LET halves == SplitContent(CleanContent(soup, div)) IN
                      IF halves.error # "none"
                      THEN [error |-> halves.error, self |-> early]
                      ELSE [error |-> "none",
                            self |-> [title |-> early.title,
                                      summary |-> early.summary,
                                      url |-> early.url,
                                      details |-> halves.details,
                                      features |-> halves.features]]

-----------------------------------------------------------------------------
(* The network the calls run against *)

feeds ==
    <<"https://www.dealnews.com/c142/Electronics/?rss=1",
      "https://www.dealnews.com/c39/Computers/?rss=1",
      "https://www.dealnews.com/c238/Automotive/?rss=1",
      "https://www.dealnews.com/f1912/Smart-Home/?rss=1",
      "https://www.dealnews.com/c196/Home-Garden/?rss=1">>

FeedUrls == {feeds[k] : k \in 1..Len(feeds)}

OneHref == <<"deal", 1>>
Hrefs == {<<u, i>> : u \in FeedUrls, i \in 1..MaxEntries} \cup {OneHref}

\* the i-th entry of the feed at u: its link is <<u, i>>
EntryAt(u, i) ==
    [title |-> <<"T", u, i>>,
     summary |-> IF i % 2 = 1 THEN <<"a", "\n", "b">>
                 ELSE <<DivSnippet, " ", "a", Bold, DivEnd>>,
     links |-> <<[href |-> <<u, i>>]>>]

\* the entries of the feed document served at u
Document(u, served) == [i \in 1..served[u].n |-> EntryAt(u, i)]

FeedLens == {1, MaxEntries}

Served ==
    {[reachable |-> FALSE, n |-> 0]}
        \cup {[reachable |-> TRUE, n |-> n] : n \in FeedLens}

Page(text) ==
    [raises |-> FALSE, status_code |-> 200,
     content |-> <<DivContent>> \o text \o <<DivEnd>>]

\* the page of a deal that is served well
GoodPage(h) ==
    IF h[2] % 2 = 1
    THEN Page(<<"a", " ">> \o Features \o <<" ", "b">>)
    ELSE Page(<<"a">> \o NewlineMore)

\* the pages as a function of the href
Web(pages) == [h \in Hrefs |-> IF h = pages.href THEN pages.reply ELSE GoodPage(h)]

NoReply == [raises |-> TRUE, status_code |-> 0, content |-> <<>>]

\* replies on which the constructor raises: a page without the content
\* section, a page whose text has the marker twice (and NoReply)
NotFound ==
    [raises |-> FALSE, status_code |-> 404, content |-> <<DivPlain, "a", DivEnd>>]
TwoMarkers == Page(Features \o <<"a">> \o Features)

\* every page good; or one bad page among the entries fetch reads (the second
\* entry of the first feed, the first entry of the last feed); or one bad
\* page behind an entry past the first ten
Nets ==
    {[href |-> <<"none", 0>>, reply |-> NoReply],
     [href |-> <<feeds[1], 2>>, reply |-> NoReply],
     [href |-> <<feeds[1], 2>>, reply |-> TwoMarkers],
     [href |-> <<feeds[Len(feeds)], 1>>, reply |-> NotFound],
     [href |-> <<feeds[1], MaxEntries>>, reply |-> NoReply]}

-----------------------------------------------------------------------------
(* Inputs of the single-call specifications *)

RECURSIVE SeqsUpTo(_, _)
SeqsUpTo(S, n) ==
    IF n = 0 THEN {<<>>}
    ELSE LET shorter == SeqsUpTo(S, n - 1) IN
         shorter \cup {Append(q, x) : q \in shorter, x \in S}

RECURSIVE Flatten(_)
Flatten(ss) == IF ss = <<>> THEN <<>> ELSE Head(ss) \o Flatten(Tail(ss))

SnippetTokens == {"a", " ", "\n", "<", ">", DivSnippet, DivEnd, Bold, EntLt}
Snippets == SeqsUpTo(SnippetTokens, MaxSnippetLen)

Pieces == {<<"a">>, <<" ">>, Newline, NewlineMore, Features,
           <<"F", "e", "a", "t">>, <<"u", "r", "e", "s">>, <<Bold>>}
PageTexts == {Flatten(ps) : ps \in SeqsUpTo(Pieces, MaxPieces)}
Documents ==
    {<<DivPlain, "a", DivEnd>>}
        \cup {<<Bold, "a">> \o <<DivContent>> \o t \o <<DivEnd, "b">> : t \in PageTexts}
StatusCodes == {200, 404}
Replies ==
    {NoReply}
        \cup {[raises |-> FALSE, status_code |-> c, content |-> d] :
                c \in StatusCodes, d \in Documents}

OneEntry(summary) ==
    [title |-> <<"T">>, summary |-> summary, links |-> <<[href |-> OneHref]>>]
OneSummaries == {<<"a", "\n">>, <<DivSnippet, " ", "a", Bold, DivEnd>>}

Idle == "idle"

IdleFetch ==
    /\ rss = Idle /\ show_progress = FALSE /\ feed_iter = <<>> /\ feed_idx = 0
    /\ entries = <<>> /\ entry_idx = 0 /\ deals = <<>> /\ clock = 0
    /\ requested = <<>> /\ progress = 0 /\ error = "none" /\ returned = Idle

FetchVars == <<rss, show_progress, feed_iter, feed_idx, entries, entry_idx,
               deals, clock, requested, progress, error, returned>>

-----------------------------------------------------------------------------
(* SpecExtract: one call of extract on every snippet up to MaxSnippetLen *)

InitExtract ==
    /\ IdleFetch /\ net = Idle
    /\ pc = "call"
    /\ arg \in Snippets
    /\ ret = <<>>

Extract ==
    /\ pc = "call"
    /\ ret' = extract(arg)
    /\ pc' = "done"
    /\ UNCHANGED <<FetchVars, net, arg>>

NextExtract == Extract

SpecExtract == InitExtract /\ [][NextExtract]_vars

-----------------------------------------------------------------------------
(* SpecDeal: one call of ScrapedDeal(entry) on every reply of the network *)

InitDeal ==
    /\ IdleFetch
    /\ pc = "call"
    /\ arg \in {OneEntry(s) : s \in OneSummaries}
    /\ net \in {[href |-> OneHref, reply |-> r] : r \in Replies}
    /\ ret = <<>>

Construct ==
    /\ pc = "call"
    /\ ret' = ScrapedDeal(arg, Web(net))
    /\ pc' = "done"
    /\ UNCHANGED <<FetchVars, net, arg>>

NextDeal == Construct

SpecDeal == InitDeal /\ [][NextDeal]_vars

-----------------------------------------------------------------------------
(* ScrapedDeal.fetch, src/agents/deals.py lines 10-16 and 75-86 *)

CapPerFeed == 10    \* feed.entries[:10]
SleepTenths == 5    \* time.sleep(0.5), in tenths

\* tqdm(iterable): iterating it yields the items of iterable, in order
Tqdm(iterable) == iterable

\* line 80 with a progress bar that swallows the first item
FeedIterSkipping(sp) == IF sp THEN Tail(feeds) ELSE feeds

\* line 80
FeedIter(sp) == IF sp THEN Tqdm(feeds) ELSE feeds

\* feedparser.parse as it would be if it let the failure of the download out
FeedparserParseRaising(feed_url, served) ==
    IF served[feed_url].reachable
    THEN [error |-> "none", bozo |-> FALSE, entries |-> Document(feed_url, served)]
    ELSE [error |-> "URLError", bozo |-> TRUE, entries |-> <<>>]

\* feedparser.parse(feed_url), line 82: a feed that cannot be downloaded or
\* parsed is reported in the result (bozo), with no entries, not raised
FeedparserParse(feed_url, served) ==
    IF served[feed_url].reachable
    THEN [error |-> "none", bozo |-> FALSE, entries |-> Document(feed_url, served)]
    ELSE [error |-> "none", bozo |-> TRUE, entries |-> <<>>]

\* line 83 without the slice
AllEntries(es) == es

\* feed.entries[:10], line 83
FirstTen(es) == SubSeq(es, 1, IF Len(es) < CapPerFeed THEN Len(es) ELSE CapPerFeed)

\* line 84 with the object appended whether or not its constructor raised
AppendAnyway(ds, made) == Append(ds, made.self)

\* line 84 with the new object put at the front of the list
InsertFirst(ds, made) ==
    IF made.error = "none" THEN <<made.self>> \o ds ELSE ds

\* deals.append(cls(entry)), line 84: append runs only if cls(entry) returned
AppendDeal(ds, made) ==
    IF made.error = "none" THEN Append(ds, made.self) ELSE ds

\* line 84 inside a try whose except clause skips the entry
Swallowed(made) == FALSE

\* line 84 stands in no try statement: an exception of cls(entry) leaves fetch
Propagates(made) == made.error # "none"

\* line 85 left out
NotSlept(c) == c

\* time.sleep(0.5), line 85
Slept(c) == c + SleepTenths

NoCall == [called |-> FALSE]

Init ==
    /\ rss \in [FeedUrls -> Served]
    /\ net \in Nets
    /\ pc = "call"
    /\ show_progress = FALSE
    /\ feed_iter = <<>> /\ feed_idx = 0
    /\ entries = <<>> /\ entry_idx = 0
    /\ deals = <<>>
    /\ clock = 0
    /\ requested = <<>>
    /\ progress = 0
    /\ error = "none"
    /\ returned = [sp \in BOOLEAN |-> NoCall]
    /\ arg = Idle /\ ret = Idle

\* fetch(show_progress) is called: lines 79-80.  Each flag is used once, the
\* default (False) first; no action changes rss or net, so the calls run
\* against the same feeds and pages.
Call(sp) ==
    /\ pc \in {"call", "returned", "raised"}
    /\ returned[sp] = NoCall
    /\ sp => returned[FALSE] # NoCall
    /\ show_progress' = sp
    /\ deals' = <<>>
    /\ feed_iter' = FeedIter(sp)
    /\ feed_idx' = 0
    /\ entries' = <<>> /\ entry_idx' = 0
    /\ clock' = 0 /\ requested' = <<>> /\ progress' = 0
    /\ error' = "none"
    /\ pc' = "feeds"
    /\ UNCHANGED <<rss, net, returned, arg, ret>>

\* the outer loop takes the next feed and parses it: lines 81-83
NextFeed ==
    /\ pc = "feeds"
    /\ feed_idx < Len(feed_iter)
    /\ LET feed_url == feed_iter[feed_idx + 1]
           feed == FeedparserParse(feed_url, rss)
       IN  /\ feed_idx' = feed_idx + 1
           /\ progress' = IF show_progress THEN progress + 1 ELSE progress
           /\ requested' = Append(requested, feed_url)
           /\ IF feed.error = "none"
              THEN /\ entries' = FirstTen(feed.entries)
                   /\ entry_idx' = 0
                   /\ pc' = "entries"
                   /\ UNCHANGED <<error, returned>>
              ELSE /\ pc' = "raised"
                   /\ error' = feed.error
                   /\ returned' = [returned EXCEPT ![show_progress] =
                        [called |-> TRUE, error |-> feed.error, value |-> <<>>,
                         requested |-> requested']]
                   /\ UNCHANGED <<entries, entry_idx>>
    /\ UNCHANGED <<rss, net, show_progress, feed_iter, deals, clock, arg, ret>>

\* the outer loop is exhausted: return deals, line 86
Return ==
    /\ pc = "feeds"
    /\ feed_idx = Len(feed_iter)
    /\ pc' = "returned"
    /\ returned' = [returned EXCEPT ![show_progress] =
            [called |-> TRUE, error |-> "none", value |-> deals,
             requested |-> requested]]
    /\ UNCHANGED <<rss, net, show_progress, feed_iter, feed_idx, entries,
                   entry_idx, deals, clock, requested, progress, error, arg, ret>>

\* the inner loop takes the next entry: cls(entry) and append, line 84; an
\* exception of the constructor leaves fetch, which catches nothing
BuildDeal ==
    /\ pc = "entries"
    /\ entry_idx < Len(entries)
    /\ LET entry == entries[entry_idx + 1]
           made == ScrapedDeal(entry, Web(net))
       IN  /\ entry_idx' = entry_idx + 1
           /\ requested' = Append(requested, entry.links[1].href)
           /\ deals' = AppendDeal(deals, made)
           /\ IF ~Propagates(made)
              THEN /\ pc' = "sleep"
                   /\ UNCHANGED <<error, returned>>
              ELSE /\ pc' = "raised"
                   /\ error' = made.error
                   /\ returned' = [returned EXCEPT ![show_progress] =
                        [called |-> TRUE, error |-> made.error, value |-> <<>>,
                         requested |-> requested']]
    /\ UNCHANGED <<rss, net, show_progress, feed_iter, feed_idx, entries,
                   clock, progress, arg, ret>>

\* time.sleep(0.5), line 85
Sleep ==
    /\ pc = "sleep"
    /\ clock' = Slept(clock)
    /\ pc' = "entries"
    /\ UNCHANGED <<rss, net, show_progress, feed_iter, feed_idx, entries,
                   entry_idx, deals, requested, progress, error, returned,
                   arg, ret>>

\* the inner loop is exhausted: back to the outer loop, line 83 to 81
EndFeed ==
    /\ pc = "entries"
    /\ entry_idx = Len(entries)
    /\ pc' = "feeds"
    /\ UNCHANGED <<rss, net, show_progress, feed_iter, feed_idx, entries,
                   entry_idx, deals, clock, requested, progress, error,
                   returned, arg, ret>>

Next ==
    \/ \E sp \in BOOLEAN : Call(sp)
    \/ NextFeed
    \/ Return
    \/ BuildDeal
    \/ Sleep
    \/ EndFeed

Spec == Init /\ [][Next]_vars

-----------------------------------------------------------------------------
(* Claims about extract, checked under SpecExtract *)

HasSnippetDiv(s) == \E i \in 1..Len(s) : s[i] = DivSnippet

\* C10: on an input without a 'snippet summary' div, extract returns the input
\* with every newline replaced by one space and nothing else changed (same
\* length, tags kept, nothing trimmed); the output has no newline and extract
\* applied to the output returns it unchanged.
C10_FallbackKeepsInput ==
    (pc = "done" /\ ~HasSnippetDiv(arg)) =>
        /\ Len(ret) = Len(arg)
        /\ \A i \in 1..Len(arg) :
              ret[i] = IF arg[i] = "\n" THEN " " ELSE arg[i]
        /\ \A i \in 1..Len(ret) : ret[i] # "\n"
        /\ extract(ret) = ret

\* an input without the div that starts with a blank, holds a tag and ends
\* with a newline has been through extract
C10_Witness ==
    /\ pc = "done" /\ ~HasSnippetDiv(arg)
    /\ Len(arg) = 3 /\ arg[1] = " " /\ arg[2] = Bold /\ arg[3] = "\n"
    /\ ret = <<" ", Bold, " ">>

-----------------------------------------------------------------------------
(* Claims about ScrapedDeal.__init__, checked under SpecDeal *)

\* the page was retrieved and has the content section
HasContentSection ==
    /\ ~net.reply.raises
    /\ \E i \in 1..Len(net.reply.content) : net.reply.content[i] = DivContent

\* the text that lines 56-60 split, when HasContentSection
PageContent ==
    CleanContent(net.reply.content, SoupFind(net.reply.content, DivContent, 1))

\* the positions at which the marker occurs in s
MarkerAt(s) == {i \in 1..Len(s) : StartsWithAt(s, Features, i)}

Min(S) == CHOOSE x \in S : \A y \in S : x <= y

\* C3: when the page text contains "Features" one or more times, the split
\* succeeds and cuts at the first occurrence only: details is the text before
\* it, features all the text after it, and details + "Features" + features
\* is the page text.
C3_SplitsAtFirstMarker ==
    (pc = "done" /\ HasContentSection /\ MarkerAt(PageContent) # {}) =>
        LET first == Min(MarkerAt(PageContent)) IN
        /\ ret.error = "none"
        /\ ret.self.details = SubSeq(PageContent, 1, first - 1)
        /\ ret.self.features =
              SubSeq(PageContent, first + Len(Features), Len(PageContent))
        /\ ret.self.details \o Features \o ret.self.features = PageContent

\* C4 as stated: a constructed deal has details and features set, and
\* features is empty exactly when the page text has no marker.
C4_EmptyIffNoMarker ==
    (pc = "done" /\ ret.error = "none") =>
        /\ {"details", "features"} \subseteq DOMAIN ret.self
        /\ (ret.self.features = <<>>) <=> (MarkerAt(PageContent) = {})

\* C4 as amended: a constructed deal has details and features set; without a
\* marker features is empty and details is the whole text; features is empty
\* exactly when the text has no marker or its only marker ends the text.
C4_EmptyIffNothingAfterMarker ==
    (pc = "done" /\ ret.error = "none") =>
        /\ {"details", "features"} \subseteq DOMAIN ret.self
        /\ MarkerAt(PageContent) = {} =>
              /\ ret.self.features = <<>>
              /\ ret.self.details = PageContent
        /\ (ret.self.features = <<>>) <=>
              \/ MarkerAt(PageContent) = {}
              \/ MarkerAt(PageContent) = {Len(PageContent) - Len(Features) + 1}

\* a deal was constructed from a text that ends with its only marker
C4_Witness ==
    /\ pc = "done" /\ ret.error = "none"
    /\ PageContent = <<"a", " ">> \o Features
    /\ ret.self.details = <<"a", " ">>
    /\ ret.self.features = <<>>

\* C7: the constructor fails when the page cannot be retrieved (no reply, or
\* a reply with a non-success status) or has no content section; it yields a
\* record only for a successfully retrieved page that has the section.
C7_FailsUnlessRetrieved ==
    pc = "done" =>
        /\ (net.reply.raises \/ net.reply.status_code # 200 \/ ~HasContentSection)
              => ret.error # "none"
        /\ ret.error = "none"
              => (net.reply.status_code = 200 /\ HasContentSection)

-----------------------------------------------------------------------------
(* Claims about ScrapedDeal.fetch, checked under Spec *)

Fields == {"title", "summary", "url", "details", "features"}

\* number of collected records that come from the feed at u
CountFrom(u) == Cardinality({k \in 1..Len(deals) : deals[k].url[1] = u})

\* number of entries the loop reads from the feed at u
ReadFrom(u) ==
    IF ~rss[u].reachable THEN 0
    ELSE IF rss[u].n < 10 THEN rss[u].n ELSE 10

\* number of entries among those whose record can be constructed
SuccessCount(u) ==
    Cardinality({i \in 1..ReadFrom(u) :
                    ScrapedDeal(EntryAt(u, i), Web(net)).error = "none"})

RECURSIVE TotalSuccess(_)
TotalSuccess(us) ==
    IF us = <<>> THEN 0 ELSE SuccessCount(Head(us)) + TotalSuccess(Tail(us))

\* the links of the entries fetch is to read: feed by feed in the order of
\* feeds, the first ten entries of each feed in the order of the feed
RECURSIVE LinksInOrder(_)
LinksInOrder(us) ==
    IF us = <<>> THEN <<>>
    ELSE [i \in 1..ReadFrom(Head(us)) |-> <<Head(us), i>>] \o LinksInOrder(Tail(us))

\* the record of the entry behind link h
RecordOf(h) == ScrapedDeal(EntryAt(h[1], h[2]), Web(net)).self

\* C1: no feed ever has more than 10 records in the list, a feed that could
\* not be retrieved has none, and when fetch returns, the number of records
\* is the sum over the feeds of the entries (among the first 10) whose record
\* was built; in a run that raised, no feed has more records than that.
C1_CapAndCount ==
    /\ \A u \in FeedUrls : CountFrom(u) <= 10
    /\ \A u \in FeedUrls : ~rss[u].reachable => CountFrom(u) = 0
    /\ pc = "returned" =>
          /\ returned[show_progress].value = deals
          /\ Len(deals) = TotalSuccess(feeds)
          /\ \A u \in FeedUrls : CountFrom(u) = SuccessCount(u)
    /\ pc = "raised" => \A u \in FeedUrls : CountFrom(u) <= SuccessCount(u)

\* fetch returned from a run over a feed that was down, a feed of one entry
\* and a feed of more than ten entries
C1_Witness ==
    /\ pc = "returned"
    /\ \E u, v, w \in FeedUrls :
          /\ ~rss[u].reachable
          /\ rss[v].reachable /\ rss[v].n = 1 /\ CountFrom(v) = 1
          /\ rss[w].reachable /\ rss[w].n > 10 /\ CountFrom(w) = 10

\* C2: at every step the list is a prefix of the records of the entries in
\* feed-list order and, within a feed, in feed order (first 10 of each); the
\* sequence a call returns is that whole list, so two calls over the same
\* feeds and pages return the same sequence.
C2_FeedThenEntryOrder ==
    LET links == LinksInOrder(feeds) IN
    /\ Len(deals) <= Len(links)
    /\ \A k \in 1..Len(deals) : deals[k].url = links[k]
    /\ deals # <<>> => deals[Len(deals)] = RecordOf(links[Len(deals)])
    /\ pc = "returned" =>
          returned[show_progress].value = [k \in 1..Len(links) |-> RecordOf(links[k])]

\* fetch returned records of two feeds, ten of them from one feed
C2_Witness ==
    /\ pc = "returned"
    /\ \E u, v \in FeedUrls : u # v /\ CountFrom(u) = 10 /\ CountFrom(v) = 1
    /\ deals[1].url[1] # deals[Len(deals)].url[1]

\* C5: every element of the list, in every state of a run and in every
\* returned sequence, has title, summary, url, details and features set.
C5_OnlyCompleteRecords ==
    /\ \A k \in 1..Len(deals) : Fields \subseteq DOMAIN deals[k]
    /\ \A sp \in BOOLEAN : returned[sp] # NoCall =>
          \A k \in 1..Len(returned[sp].value) :
              Fields \subseteq DOMAIN returned[sp].value[k]

\* a constructor raised in the middle of a feed, after records were appended
C5_Witness ==
    /\ pc = "raised"
    /\ error = "ValueError"
    /\ Len(deals) = 1
    /\ requested[Len(requested)] = <<feeds[1], 2>>

\* C6: a feed that cannot be retrieved does not make fetch raise and gives no
\* entries and no records; a run that returns has requested every feed, in
\* the order of the list, and holds the records of every reachable feed.
C6_DownFeedIsSkipped ==
    /\ \A u \in FeedUrls : ~rss[u].reachable =>
          /\ CountFrom(u) = 0
          /\ (requested # <<>> /\ requested[Len(requested)] = u) =>
                /\ pc \in {"entries", "feeds", "returned"}
                /\ error = "none"
                /\ entries = <<>>
    /\ pc = "returned" =>
          /\ SelectSeq(requested, LAMBDA x : x \in FeedUrls) = feeds
          /\ \A u \in FeedUrls : CountFrom(u) = ReadFrom(u)

\* fetch returned records of feeds that come after a feed that was down
C6_Witness ==
    /\ pc = "returned"
    /\ ~rss[feeds[1]].reachable
    /\ ~rss[feeds[3]].reachable
    /\ CountFrom(feeds[2]) = 1
    /\ CountFrom(feeds[5]) = 10

\* C8: every appended record is followed by one pause of 0.5 before anything
\* else happens: outside the pause itself the time slept is 0.5 times the
\* number of records, and a returned sequence of n records took n pauses.
C8_PauseAfterEveryRecord ==
    /\ pc # "sleep" => clock = SleepTenths * Len(deals)
    /\ pc = "sleep" => clock = SleepTenths * (Len(deals) - 1)
    /\ pc = "sleep" => (ENABLED Sleep /\ ~ENABLED BuildDeal /\ ~ENABLED NextFeed
                            /\ ~ENABLED Return)
    /\ pc = "returned" => clock = SleepTenths * Len(returned[show_progress].value)

\* fetch returned after a feed of one record and a feed of ten, with a pause
\* after the last record of each
C8_Witness ==
    /\ pc = "returned"
    /\ Len(deals) = 11
    /\ clock = 55

\* C9: the call with show_progress and the call without it, over the same
\* feeds and pages, issue the same requests in the same order and end the
\* same way with the same sequence of records; only the progress count differs.
C9_ProgressFlagIsUnobservable ==
    /\ (returned[TRUE] # NoCall /\ returned[FALSE] # NoCall) =>
          returned[TRUE] = returned[FALSE]
    /\ ~show_progress => progress = 0

\* both calls returned records
C9_Witness ==
    /\ returned[TRUE] # NoCall /\ returned[FALSE] # NoCall
    /\ returned[TRUE].error = "none"
    /\ Len(returned[TRUE].value) = 12
    /\ progress = Len(feeds)

\* the links among the urls requested so far
PagesRequested == SelectSeq(requested, LAMBDA x : x \notin FeedUrls)

\* the constructor raises on the entry behind link h
FailsAt(h) == ScrapedDeal(EntryAt(h[1], h[2]), Web(net)).error # "none"

\* C11: fetch handles no error of an entry.  When the constructor raises on
\* the entry just requested, fetch is left by that exception at once: nothing
\* more can run (no later entry, no later feed, no pause, no return), the
\* caller gets the exception and no sequence, whatever was collected before.
\* No failed entry is ever skipped: every page requested before the last one
\* gave a record, and a call returns only if no constructor raised.
C11_EntryFailureAbortsFetch ==
    /\ (pc \in {"sleep", "raised"} /\ FailsAt(requested[Len(requested)])) =>
          /\ pc = "raised"
          /\ error = ScrapedDeal(entries[entry_idx], Web(net)).error
          /\ returned[show_progress] =
                [called |-> TRUE, error |-> error, value |-> <<>>,
                 requested |-> requested]
    /\ pc = "raised" =>
          /\ error # "none"
          /\ FailsAt(requested[Len(requested)])
          /\ ~ENABLED BuildDeal /\ ~ENABLED NextFeed /\ ~ENABLED Sleep
          /\ ~ENABLED EndFeed /\ ~ENABLED Return
    /\ Len(PagesRequested) = Len(deals) + (IF pc = "raised" THEN 1 ELSE 0)
    /\ pc = "returned" => returned[show_progress].error = "none"

\* the constructor raised on the second entry of the first feed: the record
\* of the first entry is lost to the caller, and the next feed, which has
\* entries, was never requested
C11_Witness ==
    /\ pc = "raised"
    /\ error = "ConnectionError"
    /\ Len(deals) = 1
    /\ returned[show_progress].value = <<>>
    /\ rss[feeds[2]].reachable
    /\ \A k \in 1..Len(requested) : requested[k] # feeds[2]
    /\ entry_idx < Len(entries)

====
